---------------------------- MODULE Spec2Model ----------------------------
(***************************************************************************)
(* A model of pngcoder: the 4-byte chunk type, the checksummed chunk, the  *)
(* container of chunks and the command handlers that load, change and      *)
(* write a container.                                                      *)
(*                                                                         *)
(* Bytes are naturals 0..255, byte strings and Rust strings (their UTF-8   *)
(* bytes) are sequences of bytes.  A u32 is the pair <<hi, lo>> of its two *)
(* 16-bit halves, since 2^31 and above are not numbers TLC computes with.  *)
(* A Result is a record [kind, val]: kind "Ok" with the value, kind "Err"  *)
(* with the error, kind "Panic" where the Rust code aborts.                *)
(***************************************************************************)
EXTENDS Integers, Sequences, FiniteSets, TLC

VARIABLES
    s,          \* SpecType: the string (or 4 raw bytes) handed to ChunkType
    type_res,   \* SpecType: what from_str / is_valid returned
    chunk,      \* SpecChunk: the chunk built by Chunk::new
    buf,        \* SpecChunk: the byte buffer handed to Chunk::try_from
    damage,     \* SpecChunk: what was done to buf after as_bytes wrote it
    parsed,     \* SpecChunk: what Chunk::try_from returned
    png,        \* SpecPng: the chunks of the container in memory
    hist,       \* SpecPng: the last operations on png, latest first
    file,       \* SpecCli: the bytes of the file on disk
    out         \* SpecCli: what the last command did

vars == <<s, type_res, chunk, buf, damage, parsed, png, hist, file, out>>

typeVars  == <<s, type_res>>
chunkVars == <<chunk, buf, damage, parsed>>
pngVars   == <<png, hist>>
cliVars   == <<file, out>>

----------------------------------------------------------------------------
(* Results *)

Ok(v)  == [kind |-> "Ok", val |-> v]
Err(e) == [kind |-> "Err", val |-> e]
Panic  == [kind |-> "Panic", val |-> "abort"]
None   == [kind |-> "None", val |-> "none"]
NoOp   == [op |-> "none"]

IsOk(r)    == r.kind = "Ok"
ErrIs(r, name) == r.kind = "Err" /\ r.val.name = name

----------------------------------------------------------------------------
(* Bytes and strings *)

IsUpper(b)  == b >= 65 /\ b <= 90       \* b'A'..=b'Z'
IsLower(b)  == b >= 97 /\ b <= 122      \* b'a'..=b'z'

\* std::str::from_utf8: whether the bytes are well-formed UTF-8.
RECURSIVE Utf8Valid(_)
Utf8Valid(bs) ==
    LET n == Len(bs)
        Cont(i) == i <= n /\ bs[i] >= 128 /\ bs[i] <= 191
        Rest(k) == Utf8Valid(SubSeq(bs, k + 1, n))
    IN  IF n = 0 THEN TRUE
        ELSE LET b == bs[1] IN
             IF b <= 127 THEN Rest(1)
             ELSE IF b >= 194 /\ b <= 223 THEN Cont(2) /\ Rest(2)
             ELSE IF b = 224 THEN Cont(2) /\ bs[2] >= 160 /\ Cont(3) /\ Rest(3)
             ELSE IF b = 237 THEN Cont(2) /\ bs[2] <= 159 /\ Cont(3) /\ Rest(3)
             ELSE IF b >= 225 /\ b <= 239 THEN Cont(2) /\ Cont(3) /\ Rest(3)
             ELSE IF b = 240 THEN Cont(2) /\ bs[2] >= 144 /\ Cont(3) /\ Cont(4) /\ Rest(4)
             ELSE IF b = 244 THEN Cont(2) /\ bs[2] <= 143 /\ Cont(3) /\ Cont(4) /\ Rest(4)
             ELSE IF b >= 241 /\ b <= 243 THEN Cont(2) /\ Cont(3) /\ Cont(4) /\ Rest(4)
             ELSE FALSE

----------------------------------------------------------------------------
(* ChunkType: a record [bytes |-> <<b1, b2, b3, b4>>] *)

\* ChunkType::bytes
bytes(t) == t.bytes

\* ChunkType::is_reserved_bit_valid, reading byte index 1 instead of 2.
is_reserved_bit_valid_M(t) == IsUpper(t.bytes[2])

\* ChunkType::is_reserved_bit_valid: byte index 2 (the third byte) is uppercase.
is_reserved_bit_valid(t) == IsUpper(t.bytes[3])

\* ChunkType::is_critical
is_critical(t) == IsUpper(t.bytes[1])

\* ChunkType::is_public
is_public(t) == IsUpper(t.bytes[2])

\* ChunkType::is_safe_to_copy
is_safe_to_copy(t) == IsLower(t.bytes[4])

\* The loop of ChunkType::is_valid from byte i on: a byte that is no ASCII
\* letter returns false, the end of the loop returns is_reserved_bit_valid.
RECURSIVE is_valid_from(_, _)
is_valid_from(t, i) ==
    IF i > Len(t.bytes) THEN is_reserved_bit_valid(t)
    ELSE IF IsLower(t.bytes[i]) \/ IsUpper(t.bytes[i]) THEN is_valid_from(t, i + 1)
    ELSE FALSE

\* ChunkType::is_valid
is_valid(t) == is_valid_from(t, 1)

\* impl TryFrom<[u8; 4]> for ChunkType
ChunkType_try_from(value) ==
    IF Len(value) # 4
    THEN Err([name |-> "InvalidLength", args |-> <<Len(value)>>])
    ELSE Ok([bytes |-> value])

\* impl FromStr for ChunkType, accepting digits as well as letters.
from_str_Alnum(str) ==
    IF Len(str) # 4
    THEN Err([name |-> "InvalidLength", args |-> <<Len(str)>>])
    ELSE IF ~(\A i \in 1..Len(str) :
                 IsUpper(str[i]) \/ IsLower(str[i]) \/ (str[i] >= 48 /\ str[i] <= 57))
    THEN Err([name |-> "InvalidCharacter", args |-> <<>>])
    ELSE ChunkType_try_from(<<str[1], str[2], str[3], str[4]>>)

\* impl FromStr for ChunkType, copying the bytes in the wrong order.
from_str_Swap(str) ==
    IF Len(str) # 4
    THEN Err([name |-> "InvalidLength", args |-> <<Len(str)>>])
    ELSE IF ~(\A i \in 1..Len(str) : IsUpper(str[i]) \/ IsLower(str[i]))
    THEN Err([name |-> "InvalidCharacter", args |-> <<>>])
    ELSE ChunkType_try_from(<<str[1], str[2], str[4], str[3]>>)

\* impl FromStr for ChunkType
from_str(str) ==
    IF Len(str) # 4
    THEN Err([name |-> "InvalidLength", args |-> <<Len(str)>>])
    ELSE IF ~(\A i \in 1..Len(str) : IsUpper(str[i]) \/ IsLower(str[i]))
    THEN Err([name |-> "InvalidCharacter", args |-> <<>>])
    ELSE ChunkType_try_from(<<str[1], str[2], str[3], str[4]>>)

\* impl Display for ChunkType: str::from_utf8(&self.bytes).unwrap()
to_string(t) == IF Utf8Valid(t.bytes) THEN Ok(t.bytes) ELSE Panic


----------------------------------------------------------------------------
(* u32: <<hi, lo>>, the value hi * 2^16 + lo *)

\* pub const MAX_CHUNK_LEN: u32 = 2147483648, which is 2^15 * 2^16.
MAX_CHUNK_LEN == <<32768, 0>>

\* `n as u32` of a usize n (n below 2^31 here): the low 32 bits.
as_u32(n) == <<(n \div 65536) % 65536, n % 65536>>

\* n > u for a usize n and a u32 u.
UsizeGt(n, u) ==
    \/ n \div 65536 > u[1]
    \/ n \div 65536 = u[1] /\ n % 65536 > u[2]

\* u32::to_be_bytes
to_be_bytes(u) == <<u[1] \div 256, u[1] % 256, u[2] \div 256, u[2] % 256>>

\* u32::from_be_bytes
from_be_bytes(b) == <<b[1] * 256 + b[2], b[3] * 256 + b[4]>>

\* Whether the slice bounds start .. start + (n as usize) lie within a buffer
\* of len bytes (usize is 64 bits wide: the sum does not wrap).  Buffers are
\* shorter than 2^16 bytes, so an n of 2^16 or more ends beyond any of them.
SliceInRange(start, n, len) == n[1] = 0 /\ start + n[2] <= len

----------------------------------------------------------------------------
(* CRC-32/ISO-HDLC: a register is the set of its bit positions that are 1 *)

\* The reflected polynomial 0xEDB88320.
CrcPoly == {31, 30, 29, 27, 26, 24, 23, 21, 20, 19, 15, 9, 8, 5}

Xor(a, b) == (a \ b) \cup (b \ a)

Shr1(a) == {i - 1 : i \in a \ {0}}

BitsOf(b) == {j \in 0..7 : (b \div (2 ^ j)) % 2 = 1}

RECURSIVE CrcShift(_, _)
CrcShift(c, k) ==
    IF k = 0 THEN c
    ELSE CrcShift(IF 0 \in c THEN Xor(Shr1(c), CrcPoly) ELSE Shr1(c), k - 1)

\* digest.update(bs)
RECURSIVE CrcUpdate(_, _)
CrcUpdate(c, bs) ==
    IF bs = <<>> THEN c
    ELSE CrcUpdate(CrcShift(Xor(c, BitsOf(Head(bs))), 8), Tail(bs))

\* The number whose bits are the n positions of c from lo on.
RECURSIVE BitsValue(_, _, _)
BitsValue(c, lo, n) ==
    IF n = 0 THEN 0
    ELSE (IF lo + n - 1 \in c THEN 2 ^ (n - 1) ELSE 0) + BitsValue(c, lo, n - 1)

\* hasher.digest() starts from 0xFFFFFFFF, digest.finalize() inverts the register.
CrcFinalize(c) == LET r == (0..31) \ c IN <<BitsValue(r, 16, 16), BitsValue(r, 0, 16)>>

----------------------------------------------------------------------------
(* Chunk: a record [chunk_type, data] *)

\* Chunk::new
Chunk_new(chunk_type, data) ==
    IF UsizeGt(Len(data), MAX_CHUNK_LEN) THEN Panic
    ELSE Ok([chunk_type |-> chunk_type, data |-> data])

\* Chunk::length
length(c) == as_u32(Len(c.data))

\* Chunk::crc, leaving the data out of the digest.
crc_M(c) == CrcFinalize(CrcUpdate(0..31, bytes(c.chunk_type)))

\* Chunk::crc
crc(c) == CrcFinalize(CrcUpdate(CrcUpdate(0..31, bytes(c.chunk_type)), c.data))

\* Chunk::data_as_string
data_as_string(c) ==
    IF Utf8Valid(c.data) THEN Ok(c.data) ELSE Err([name |-> "Utf8Error", args |-> <<>>])

\* Chunk::as_bytes
as_bytes(c) ==
    to_be_bytes(length(c)) \o bytes(c.chunk_type) \o c.data \o to_be_bytes(crc(c))

\* impl TryFrom<&[u8]> for Chunk
Chunk_try_from(value) ==
    IF Len(value) < 12
    THEN Err([name |-> "InvalidChunkLength", args |-> <<Len(value)>>])
    ELSE
    LET data_length == from_be_bytes(SubSeq(value, 1, 4))
        chunk_type  == ChunkType_try_from(<<value[5], value[6], value[7], value[8]>>)
    IN  IF ~IsOk(chunk_type) THEN chunk_type
        ELSE IF ~is_valid(chunk_type.val)
        THEN Err([name |-> "InvalidChunkType", args |-> <<>>])
        ELSE IF ~SliceInRange(8, data_length, Len(value)) THEN Panic
        ELSE
        LET data == SubSeq(value, 9, 8 + data_length[2])
            new  == Chunk_new(chunk_type.val, data)
        IN  IF ~IsOk(new) THEN new
            ELSE IF ~SliceInRange(12, data_length, Len(value)) THEN Panic
            ELSE
            LET stored == from_be_bytes(SubSeq(value, 9 + data_length[2],
                                                      12 + data_length[2]))
                calculated_crc == crc(new.val)
            IN  IF stored # calculated_crc
                THEN Err([name |-> "CrcMismatch", args |-> <<stored, calculated_crc>>])
                ELSE new

----------------------------------------------------------------------------
(* Png: a record [chunks], the container's chunks in file order *)

\* Png::STANDARD_HEADER
STANDARD_HEADER == <<137, 80, 78, 71, 13, 10, 26, 10>>

\* Png::from_chunks
Png_from_chunks(chunks) == [chunks |-> chunks]

\* Png::append_chunk
Png_append_chunk(p, c) == [chunks |-> Append(p.chunks, c)]

\* Whether the type of chunk c reads as the type t does.
TypeMatches(c, t) ==
    /\ IsOk(to_string(c.chunk_type)) /\ IsOk(to_string(t))
    /\ to_string(c.chunk_type).val = to_string(t).val

\* The index of the first chunk of p whose type reads as t does, 0 if none.
FirstMatch(p, t) ==
    IF \E i \in 1..Len(p.chunks) : TypeMatches(p.chunks[i], t)
    THEN CHOOSE i \in 1..Len(p.chunks) :
            /\ TypeMatches(p.chunks[i], t)
            /\ \A j \in 1..(i - 1) : ~TypeMatches(p.chunks[j], t)
    ELSE 0

\* Png::remove_chunk: [res |-> the Result, png |-> the container afterwards]
Png_remove_chunk(p, type_str) ==
    LET t == from_str(type_str) IN
    IF ~IsOk(t) THEN [res |-> t, png |-> p]
    ELSE LET i == FirstMatch(p, t.val) IN
         IF i = 0
         THEN [res |-> Err([name |-> "ChunkNotFound", args |-> <<>>]), png |-> p]
         ELSE [res |-> Ok(p.chunks[i]),
               png |-> [chunks |-> SubSeq(p.chunks, 1, i - 1)
                                   \o SubSeq(p.chunks, i + 1, Len(p.chunks))]]

\* Png::chunk_by_type: the first chunk whose type reads as type_str, or None
Png_chunk_by_type(p, type_str) ==
    LET hits == {i \in 1..Len(p.chunks) :
                    /\ IsOk(to_string(p.chunks[i].chunk_type))
                    /\ to_string(p.chunks[i].chunk_type).val = type_str}
    IN  IF hits = {} THEN None
        ELSE Ok(p.chunks[CHOOSE i \in hits : \A j \in hits : i <= j])

\* Png::as_bytes: the signature, then every chunk's as_bytes in order
RECURSIVE ChunksBytes(_)
ChunksBytes(cs) ==
    IF cs = <<>> THEN <<>> ELSE as_bytes(Head(cs)) \o ChunksBytes(Tail(cs))

Png_as_bytes(p) == STANDARD_HEADER \o ChunksBytes(p.chunks)

\* The loop of Png::try_from: Chunk::try_from on the bytes left, the cursor
\* moved on by 12 + the chunk's length, until no bytes are left; a chunk that
\* fails ends the parse with its failure.
RECURSIVE ParseChunks(_, _)
ParseChunks(rest, acc) ==
    IF rest = <<>> THEN Ok([chunks |-> acc])
    ELSE LET c == Chunk_try_from(rest) IN
         IF ~IsOk(c) THEN c
         ELSE ParseChunks(SubSeq(rest, 13 + Len(c.val.data), Len(rest)),
                          Append(acc, c.val))

\* impl TryFrom<&[u8]> for Png
Png_try_from(bs) ==
    IF Len(bs) < 8 \/ SubSeq(bs, 1, 8) # STANDARD_HEADER
    THEN Err([name |-> "InvalidSignature", args |-> <<>>])
    ELSE ParseChunks(SubSeq(bs, 9, Len(bs)), <<>>)

----------------------------------------------------------------------------
(* Handler: the commands.  A command returns [res |-> its Result, file |->  *)
(* the bytes of the file at file_path afterwards, written |-> what it wrote *)
(* and where, stdout |-> what it printed].  The file at file_path exists    *)
(* and reading and writing it succeed.                                      *)

\* Png::from_file: the file's bytes through Png::try_from
Png_from_file(f) == Png_try_from(f)

Done(res, f, written, stdout) ==
    [res |-> res, file |-> f, written |-> written, stdout |-> stdout]

\* Handler::handle_encode; output_file is None or Ok(a path other than file_path)
handle_encode(f, chunk_type, message, output_file) ==
    LET loaded == Png_from_file(f)
        t      == from_str(chunk_type)
    IN  IF ~IsOk(loaded) THEN Done(loaded, f, None, <<>>)
        ELSE IF ~IsOk(t) THEN Done(t, f, None, <<>>)
        ELSE LET new == Chunk_new(t.val, message) IN
             IF ~IsOk(new) THEN Done(new, f, None, <<>>)
             ELSE LET bs == Png_as_bytes(Png_append_chunk(loaded.val, new.val)) IN
                  IF IsOk(output_file)
                  THEN Done(Ok(<<>>), f, [path |-> "output_file", bytes |-> bs],
                            <<"Encoding successful!">>)
                  ELSE Done(Ok(<<>>), bs, [path |-> "file_path", bytes |-> bs],
                            <<"Encoding successful!">>)

\* Handler::handle_decode
handle_decode(f, chunk_type) ==
    LET loaded == Png_from_file(f) IN
    IF ~IsOk(loaded) THEN Done(loaded, f, None, <<>>)
    ELSE LET maybe_chunk == Png_chunk_by_type(loaded.val, chunk_type) IN
         IF ~IsOk(maybe_chunk)
         THEN Done(Err([name |-> "ChunkNotFound", args |-> <<>>]), f, None, <<>>)
         ELSE LET chunk_data == data_as_string(maybe_chunk.val) IN
              IF ~IsOk(chunk_data) THEN Done(chunk_data, f, None, <<>>)
              ELSE Done(Ok(<<>>), f, None, <<chunk_data.val>>)

\* Handler::handle_remove
handle_remove(f, chunk_type) ==
    LET loaded == Png_from_file(f) IN
    IF ~IsOk(loaded) THEN Done(loaded, f, None, <<>>)
    ELSE LET removed == Png_remove_chunk(loaded.val, chunk_type) IN
         IF ~IsOk(removed.res) THEN Done(removed.res, f, None, <<>>)
         ELSE LET bs == Png_as_bytes(removed.png) IN
              Done(Ok(<<>>), bs, [path |-> "file_path", bytes |-> bs], <<"Chunk removed!">>)

----------------------------------------------------------------------------
(* SpecType: ChunkType::from_str and ChunkType::is_valid on bounded inputs *)

MaxStrLen == 5

\* The bytes strings are drawn from: the ends of both letter ranges, the
\* non-letters '1', '[' and '{', and the two bytes of U+00E9.
StrBytes == {49, 65, 90, 91, 97, 122, 123, 195, 169}

RECURSIVE SeqsUpTo(_, _)
SeqsUpTo(S, n) ==
    IF n = 0 THEN {<<>>}
    ELSE LET shorter == SeqsUpTo(S, n - 1)
         IN  shorter \cup {Append(q, x) : q \in {r \in shorter : Len(r) = n - 1}, x \in S}

TypeInit ==
    /\ s \in SeqsUpTo(StrBytes, MaxStrLen)
    /\ type_res = NoOp
    /\ chunk = None /\ buf = <<>> /\ damage = None /\ parsed = None
    /\ png = <<>> /\ hist = <<>>
    /\ file = <<>> /\ out = NoOp

\* ChunkType::from_str(s) for a Rust string s, then to_string() of the result.
FromStr ==
    /\ type_res = NoOp
    /\ Utf8Valid(s)
    /\ type_res' = [op |-> "from_str", res |-> from_str(s),
                    text |-> IF IsOk(from_str(s)) THEN to_string(from_str(s).val) ELSE None]
    /\ UNCHANGED <<s, chunkVars, pngVars, cliVars>>

\* ChunkType::try_from(s) for an array s of 4 bytes, then is_valid() of the result.
IsValid ==
    /\ type_res = NoOp
    /\ Len(s) = 4
    /\ type_res' = [op |-> "is_valid", res |-> ChunkType_try_from(s),
                    text |-> [kind |-> "Bool", val |-> is_valid(ChunkType_try_from(s).val)]]
    /\ UNCHANGED <<s, chunkVars, pngVars, cliVars>>

TypeNext == FromStr \/ IsValid

SpecType == TypeInit /\ [][TypeNext]_vars

IsLetter(b) == (b >= 65 /\ b <= 90) \/ (b >= 97 /\ b <= 122)

\* C7: from_str(s) fails with InvalidLength when s is not exactly 4 bytes
\* long, fails with InvalidCharacter when s is 4 bytes long and some byte is
\* no ASCII letter, and otherwise succeeds with a ChunkType whose to_string()
\* is s.
C7_FromStr ==
    type_res.op = "from_str" =>
        /\ Len(s) # 4 => ErrIs(type_res.res, "InvalidLength")
        /\ (Len(s) = 4 /\ \E i \in 1..4 : ~IsLetter(s[i]))
               => ErrIs(type_res.res, "InvalidCharacter")
        /\ (Len(s) = 4 /\ \A i \in 1..4 : IsLetter(s[i]))
               => /\ IsOk(type_res.res)
                  /\ IsOk(type_res.text)
                  /\ type_res.text.val = s

\* from_str has accepted "ZaAz", and the type it returned reads "ZaAz".
C7_Witness ==
    /\ type_res.op = "from_str"
    /\ s = <<90, 97, 65, 122>>
    /\ IsOk(type_res.res)
    /\ type_res.text = Ok(s)

\* C8: is_valid() is true exactly when all 4 bytes are ASCII letters and
\* byte index 2 is uppercase; a type from_str accepts can be invalid.
C8_IsValid ==
    /\ type_res.op = "is_valid" =>
          type_res.text.val = (/\ \A i \in 1..4 : IsLetter(s[i])
                               /\ s[3] \in 65..90)
    /\ (type_res.op = "from_str" /\ IsOk(type_res.res) /\ s[3] \in 97..122)
          => ~is_valid(type_res.res.val)

\* is_valid() has rejected a type made of letters, which from_str accepts.
C8_Witness ==
    /\ type_res.op = "is_valid"
    /\ \A i \in 1..4 : IsLetter(s[i])
    /\ IsOk(from_str(s))
    /\ type_res.text.val = FALSE


----------------------------------------------------------------------------
(* SpecChunk: Chunk::new, as_bytes, damage to the bytes, Chunk::try_from *)

MaxDataLen == 2

MaxCut == 3

DataBytes == {0, 72, 255}

\* "RuSt", "ruSt" (valid), "Rust" (letters, reserved bit invalid), "ru1t"
ChunkTypeBytes ==
    {<<82, 117, 83, 116>>, <<114, 117, 83, 116>>, <<82, 117, 115, 116>>, <<114, 117, 49, 116>>}

\* Length fields a damaged record may carry: 1, 9, 2^16, 2^31, 2^32 - 1.
LengthFields == {<<0, 0, 0, 1>>, <<0, 0, 0, 9>>, <<0, 1, 0, 0>>, <<128, 0, 0, 0>>,
                 <<255, 255, 255, 255>>}

ChunkInit ==
    /\ \E tb \in ChunkTypeBytes, d \in SeqsUpTo(DataBytes, MaxDataLen) :
          chunk = Chunk_new(ChunkType_try_from(tb).val, d).val
    /\ buf = <<>>
    /\ damage = NoOp
    /\ parsed = None
    /\ s = <<>> /\ type_res = NoOp
    /\ png = <<>> /\ hist = <<>>
    /\ file = <<>> /\ out = NoOp

\* chunk.as_bytes()
Serialize ==
    /\ damage = NoOp
    /\ buf' = as_bytes(chunk)
    /\ damage' = [op |-> "as_bytes"]
    /\ UNCHANGED <<chunk, parsed, typeVars, pngVars, cliVars>>

FlipBitOf(b, j) == IF (b \div (2 ^ j)) % 2 = 1 THEN b - 2 ^ j ELSE b + 2 ^ j

\* One bit of a type byte or a data byte of the record is flipped; the length
\* field and the trailing 4 CRC bytes stay as written.
FlipBit ==
    /\ damage = [op |-> "as_bytes"]
    /\ parsed = None
    /\ \E i \in 5..(Len(buf) - 4), j \in 0..7 :
          /\ buf' = [buf EXCEPT ![i] = FlipBitOf(buf[i], j)]
          /\ damage' = [op |-> "flip", at |-> i, bit |-> j]
    /\ UNCHANGED <<chunk, parsed, typeVars, pngVars, cliVars>>

\* The record loses its last k bytes.
Truncate ==
    /\ damage = [op |-> "as_bytes"]
    /\ parsed = None
    /\ \E k \in 1..MaxCut :
          /\ buf' = SubSeq(buf, 1, Len(buf) - k)
          /\ damage' = [op |-> "truncate", by |-> k]
    /\ UNCHANGED <<chunk, parsed, typeVars, pngVars, cliVars>>

\* The length field of the record is overwritten.
SetLength ==
    /\ damage = [op |-> "as_bytes"]
    /\ parsed = None
    /\ \E l \in LengthFields :
          /\ SubSeq(buf, 1, 4) # l
          /\ buf' = l \o SubSeq(buf, 5, Len(buf))
          /\ damage' = [op |-> "set_length", to |-> l]
    /\ UNCHANGED <<chunk, parsed, typeVars, pngVars, cliVars>>

\* Chunk::try_from(buf)
Parse ==
    /\ damage # NoOp
    /\ parsed = None
    /\ parsed' = Chunk_try_from(buf)
    /\ UNCHANGED <<chunk, buf, damage, typeVars, pngVars, cliVars>>

ChunkNext == Serialize \/ FlipBit \/ Truncate \/ SetLength \/ Parse

SpecChunk == ChunkInit /\ [][ChunkNext]_vars

\* C1: parsing the bytes as_bytes wrote for Chunk::new(t, d) succeeds and
\* returns a chunk with the same type, the same data and the same CRC, for
\* every chunk type t.
C1_RoundTrip ==
    (damage = [op |-> "as_bytes"] /\ parsed # None) =>
        /\ IsOk(parsed)
        /\ parsed.val.chunk_type = chunk.chunk_type
        /\ parsed.val.data = chunk.data
        /\ crc(parsed.val) = crc(chunk)

\* The round trip of C1 for the chunk types that pass is_valid.
C1_RoundTripValid ==
    (damage = [op |-> "as_bytes"] /\ parsed # None /\ is_valid(chunk.chunk_type)) =>
        /\ IsOk(parsed)
        /\ parsed.val.chunk_type = chunk.chunk_type
        /\ parsed.val.data = chunk.data
        /\ crc(parsed.val) = crc(chunk)

\* C2: after one bit of the type bytes or of the data bytes is flipped and the
\* trailing CRC bytes are left alone, Chunk::try_from fails with CrcMismatch.
\* Stated for the chunks of valid type, whose bytes parse before the flip.
C2_FlipIsCrcMismatch ==
    (damage.op = "flip" /\ parsed # None /\ is_valid(chunk.chunk_type))
        => ErrIs(parsed, "CrcMismatch")

\* C2 as amended: after such a flip Chunk::try_from fails; with
\* InvalidChunkType when the type bytes of the damaged record do not pass
\* is_valid, with CrcMismatch otherwise.
C2_FlipFails ==
    (damage.op = "flip" /\ parsed # None) =>
        IF is_valid([bytes |-> SubSeq(buf, 5, 8)])
        THEN ErrIs(parsed, "CrcMismatch")
        ELSE ErrIs(parsed, "InvalidChunkType")

\* A flipped data bit and a flipped type bit that keeps the type valid have
\* both been rejected by the CRC comparison.
C2_Witness ==
    /\ damage.op = "flip"
    /\ ErrIs(parsed, "CrcMismatch")
    /\ \/ damage.at > 8
       \/ damage.at = 5 /\ damage.bit = 5

\* C3: Chunk::try_from returns a chunk or an error for every buffer and never
\* aborts; a buffer of at least 12 bytes with a valid type whose declared
\* length leaves no room for the data and the 4 CRC bytes is such a buffer.
C3_NeverPanics ==
    parsed # None => parsed.kind \in {"Ok", "Err"}

----------------------------------------------------------------------------
(* SpecPng: a container in memory under append_chunk, remove_chunk and a    *)
(* round trip through its bytes                                             *)

MaxChunks == 3

\* The chunks a caller builds: Chunk::new of "RuSt" (valid) and of "RutS"
\* (letters, reserved bit invalid) with the data "" and "H", and of the
\* bytes "ru1t", which only ChunkType::try_from accepts.
PngChunks ==
    {Chunk_new(ChunkType_try_from(tb).val, d).val :
        tb \in {<<82, 117, 83, 116>>, <<82, 117, 116, 83>>}, d \in {<<>>, <<72>>}}
    \cup {Chunk_new(ChunkType_try_from(<<114, 117, 49, 116>>).val, <<>>).val}

\* The type strings a caller asks for: the three above, "IDAT", which no
\* chunk carries, and "RuS".
TypeStrings ==
    {<<82, 117, 83, 116>>, <<82, 117, 116, 83>>, <<114, 117, 49, 116>>,
     <<73, 68, 65, 84>>, <<82, 117, 83>>}

\* hist with the record r put in front, cut to the last two operations.
Push(r) == SubSeq(<<r>> \o hist, 1, IF Len(hist) = 0 THEN 1 ELSE 2)

PngInit ==
    /\ \E cs \in SeqsUpTo(PngChunks, MaxChunks - 1) : png = Png_from_chunks(cs)
    /\ hist = <<>>
    /\ s = <<>> /\ type_res = NoOp
    /\ chunk = None /\ buf = <<>> /\ damage = NoOp /\ parsed = None
    /\ file = <<>> /\ out = NoOp

\* png.append_chunk(c)
AppendChunk ==
    /\ Len(png.chunks) < MaxChunks
    /\ \E c \in PngChunks :
          /\ png' = Png_append_chunk(png, c)
          /\ hist' = Push([op |-> "append_chunk", arg |-> c, before |-> png.chunks,
                           res |-> Ok(<<>>)])
    /\ UNCHANGED <<typeVars, chunkVars, cliVars>>

\* png.remove_chunk(type_str)
RemoveChunk ==
    /\ \E type_str \in TypeStrings :
          /\ png' = Png_remove_chunk(png, type_str).png
          /\ hist' = Push([op |-> "remove_chunk", arg |-> type_str, before |-> png.chunks,
                           res |-> Png_remove_chunk(png, type_str).res])
    /\ UNCHANGED <<typeVars, chunkVars, cliVars>>

\* Png::try_from(png.as_bytes()), and as_bytes() of what it returned
RoundTrip ==
    /\ png' = png
    /\ hist' = Push([op |-> "as_bytes", arg |-> Png_as_bytes(png), before |-> png.chunks,
                     res |-> LET r == Png_try_from(Png_as_bytes(png))
                             IN  IF IsOk(r) THEN Ok(Png_as_bytes(r.val)) ELSE r])
    /\ UNCHANGED <<typeVars, chunkVars, cliVars>>

PngNext == AppendChunk \/ RemoveChunk \/ RoundTrip

SpecPng == PngInit /\ [][PngNext]_vars

\* Whether the chunk's type reads as the string type_str.
ReadsAs(c, type_str) == c.chunk_type.bytes = type_str

\* The sequence q without its element i.
Without(q, i) == [k \in 1..(Len(q) - 1) |-> IF k < i THEN q[k] ELSE q[k + 1]]

\* C4: the bytes as_bytes writes for any container, however built and
\* changed, parse, and as_bytes of the parsed container gives the same bytes.
C4_BytesRoundTrip ==
    (hist # <<>> /\ hist[1].op = "as_bytes") =>
        /\ IsOk(hist[1].res)
        /\ hist[1].res.val = hist[1].arg

\* C5: append_chunk(c) followed by remove_chunk of c's type string leaves the
\* chunks as they were before the append.  Stated for the chunks whose type
\* is 4 ASCII letters, the type strings from_str accepts.
C5_AppendRemoveRestores ==
    (/\ Len(hist) = 2
     /\ hist[2].op = "append_chunk"
     /\ hist[1].op = "remove_chunk"
     /\ ReadsAs(hist[2].arg, hist[1].arg)
     /\ \A i \in 1..4 : IsLetter(hist[1].arg[i]))
        => png.chunks = hist[2].before

\* C5 as amended: the same, for a chunk c whose type is 4 ASCII letters and a
\* container that held no chunk of c's type before the append.
C5_AppendRemoveRestoresFresh ==
    (/\ Len(hist) = 2
     /\ hist[2].op = "append_chunk"
     /\ hist[1].op = "remove_chunk"
     /\ ReadsAs(hist[2].arg, hist[1].arg)
     /\ \A i \in 1..4 : IsLetter(hist[1].arg[i])
     /\ \A i \in 1..Len(hist[2].before) : ~ReadsAs(hist[2].before[i], hist[1].arg))
        => /\ IsOk(hist[1].res)
           /\ hist[1].res.val = hist[2].arg
           /\ png.chunks = hist[2].before

\* A chunk was appended to a container holding other chunks but none of its
\* type, and remove_chunk of its type has run.
C5_Witness ==
    /\ Len(hist) = 2
    /\ hist[2].op = "append_chunk"
    /\ hist[1].op = "remove_chunk"
    /\ ReadsAs(hist[2].arg, hist[1].arg)
    /\ Len(hist[2].before) = 2
    /\ \A i \in 1..Len(hist[2].before) : ~ReadsAs(hist[2].before[i], hist[1].arg)
    /\ png.chunks = hist[2].before

\* C6: remove_chunk with a well-formed type string that no chunk carries
\* fails with ChunkNotFound and leaves the chunks as they were.
C6_RemoveAbsent ==
    (/\ hist # <<>>
     /\ hist[1].op = "remove_chunk"
     /\ Len(hist[1].arg) = 4
     /\ \A i \in 1..4 : IsLetter(hist[1].arg[i])
     /\ \A i \in 1..Len(hist[1].before) : ~ReadsAs(hist[1].before[i], hist[1].arg))
        => /\ ErrIs(hist[1].res, "ChunkNotFound")
           /\ png.chunks = hist[1].before

\* remove_chunk("RuSt") has run on a container of two chunks, neither of
\* type "RuSt".
C6_Witness ==
    /\ hist # <<>>
    /\ hist[1].op = "remove_chunk"
    /\ hist[1].arg = <<82, 117, 83, 116>>
    /\ Len(hist[1].before) = 2
    /\ \A i \in 1..2 : ~ReadsAs(hist[1].before[i], hist[1].arg)
    /\ hist[1].res.kind = "Err"

\* C9: a remove_chunk that succeeds removes and returns the first chunk of
\* the requested type; every other chunk, later chunks of that type
\* included, stays, in the order it had.
C9_RemovesFirstOnly ==
    (hist # <<>> /\ hist[1].op = "remove_chunk" /\ IsOk(hist[1].res)) =>
        \E i \in 1..Len(hist[1].before) :
            /\ ReadsAs(hist[1].before[i], hist[1].arg)
            /\ \A j \in 1..(i - 1) : ~ReadsAs(hist[1].before[j], hist[1].arg)
            /\ hist[1].res.val = hist[1].before[i]
            /\ png.chunks = Without(hist[1].before, i)

\* remove_chunk has succeeded on a container with two different chunks of
\* the requested type, the first of them not at the front.
C9_Witness ==
    /\ hist # <<>>
    /\ hist[1].op = "remove_chunk"
    /\ IsOk(hist[1].res)
    /\ Len(hist[1].before) = 3
    /\ ~ReadsAs(hist[1].before[1], hist[1].arg)
    /\ ReadsAs(hist[1].before[2], hist[1].arg)
    /\ ReadsAs(hist[1].before[3], hist[1].arg)
    /\ hist[1].before[2] # hist[1].before[3]
    /\ png.chunks = <<hist[1].before[1], hist[1].before[3]>>


----------------------------------------------------------------------------
(* SpecCli: the commands run one after another on the file at file_path *)

MaxFileChunks == 2

\* The type strings given on the command line: "RuSt", "Rust", "Ru1t".
CliTypeStrings == {<<82, 117, 83, 116>>, <<82, 117, 115, 116>>, <<82, 117, 49, 116>>}

\* The messages given on the command line: "" and "H".
CliMessages == {<<>>, <<72>>}

\* The files the commands start from: containers of valid chunks, and a file
\* that is no container.
CliFiles ==
    {Png_as_bytes(Png_from_chunks(cs)) :
        cs \in SeqsUpTo({Chunk_new(ChunkType_try_from(<<82, 117, 83, 116>>).val, m).val :
                            m \in CliMessages}, MaxFileChunks - 1)}
    \cup {<<71, 73, 70>>}

CliInit ==
    /\ file \in CliFiles
    /\ out = NoOp
    /\ s = <<>> /\ type_res = NoOp
    /\ chunk = None /\ buf = <<>> /\ damage = NoOp /\ parsed = None
    /\ png = <<>> /\ hist = <<>>

\* pngc encode file_path chunk_type message [-o output_file]
HandleEncode ==
    /\ \E chunk_type \in CliTypeStrings, message \in CliMessages,
          output_file \in {None, Ok("output_file")} :
          LET r == handle_encode(file, chunk_type, message, output_file) IN
          /\ (IsOk(Png_from_file(file)) /\ ~IsOk(output_file))
                 => Len(Png_from_file(file).val.chunks) < MaxFileChunks
          /\ file' = r.file
          /\ out' = [op |-> "encode", chunk_type |-> chunk_type, message |-> message,
                     res |-> r.res, written |-> r.written, stdout |-> r.stdout]
    /\ UNCHANGED <<typeVars, chunkVars, pngVars>>

\* pngc decode file_path chunk_type
HandleDecode ==
    /\ \E chunk_type \in CliTypeStrings :
          LET r == handle_decode(file, chunk_type) IN
          /\ file' = r.file
          /\ out' = [op |-> "decode", chunk_type |-> chunk_type, message |-> <<>>,
                     res |-> r.res, written |-> r.written, stdout |-> r.stdout]
    /\ UNCHANGED <<typeVars, chunkVars, pngVars>>

\* pngc remove file_path chunk_type
HandleRemove ==
    /\ \E chunk_type \in CliTypeStrings :
          LET r == handle_remove(file, chunk_type) IN
          /\ file' = r.file
          /\ out' = [op |-> "remove", chunk_type |-> chunk_type, message |-> <<>>,
                     res |-> r.res, written |-> r.written, stdout |-> r.stdout]
    /\ UNCHANGED <<typeVars, chunkVars, pngVars>>

CliNext == HandleEncode \/ HandleDecode \/ HandleRemove

SpecCli == CliInit /\ [][CliNext]_vars

\* C10: the bytes an encode that succeeds has written are accepted by
\* Png::try_from, whatever type string from_str accepted.
C10_EncodedIsReadable ==
    (out.op = "encode" /\ IsOk(out.res)) => IsOk(Png_try_from(out.written.bytes))

\* The same for the type strings whose type passes is_valid.
C10_EncodedValidIsReadable ==
    (out.op = "encode" /\ IsOk(out.res) /\ is_valid(from_str(out.chunk_type).val))
        => IsOk(Png_try_from(out.written.bytes))

============================================================================
